---- MODULE Spec2Model ----
(***************************************************************************)
(* Model of the payments engine of accounts_manager (src/src/engine.rs,    *)
(* src/src/types.rs).                                                      *)
(*                                                                         *)
(* The engine owns two maps: clients (u16 -> ClientAccount) and            *)
(* transactions (u32 -> StoredTransaction).  process(record) applies one   *)
(* TransactionRecord to them.  Amounts are exact decimals (rust_decimal);  *)
(* they are modelled as integers counting the smallest unit that occurs,   *)
(* on which +, - and >= are exact as they are on Decimal.  Negative and    *)
(* zero amounts are accepted by the decoder and by the engine, so the      *)
(* inputs include them.  Decimal's 96-bit overflow is out of reach of the  *)
(* bounded streams explored here.                                          *)
(*                                                                         *)
(* A HashMap is a function whose DOMAIN is the set of keys present.        *)
(* Option<Decimal> is a sequence: <<>> is None, <<a>> is Some(a).          *)
(***************************************************************************)
EXTENDS Integers, Sequences, FiniteSets, TLC

\* ---- bounds of the explored inputs -------------------------------------
NumClients == 2
NumTx == 2
MaxAmount == 2
MaxEvents == 4
\* length of the streams that go on after an account has been locked
MaxEventsLong == 6

Clients == 1..NumClients
Txs == 1..NumTx
\* amounts a record can carry: a negative one, zero and positive ones
AmountValues == (0 - 1)..MaxAmount

None == <<>>
Some(a) == <<a>>
Amounts == {None} \cup {Some(a) : a \in AmountValues}

VARIABLES
    clients,            \* PaymentsEngine.clients
    transactions,       \* PaymentsEngine.transactions
    record,             \* the TransactionRecord handled last by process()
    prev_clients,       \* clients as it was when process(record) was entered
    prev_transactions,  \* transactions as it was when process(record) was entered
    processed,          \* number of records handled so far
    stream              \* the records handled so far, in order; kept only when
                        \* the input is a deposit/withdrawal stream (SpecDW)

vars == <<clients, transactions, record, prev_clients, prev_transactions,
          processed, stream>>

\* ---- types.rs ------------------------------------------------------------
\* Records list their fields in the order of the Rust structs, and every
\* field name occurs first in that order.
TransactionType == {"deposit", "withdrawal", "dispute", "resolve", "chargeback"}

TransactionRecord(type, client, tx, amount) ==
    [type |-> type, client |-> client, tx |-> tx, amount |-> amount]

StoredTransaction(client, amount, under_dispute) ==
    [client |-> client, amount |-> amount, under_dispute |-> under_dispute]

\* ClientAccount::new
new == [available |-> 0, held |-> 0, total |-> 0, locked |-> FALSE]

\* ClientAccount::deposit
deposit(account, amount) ==
    [account EXCEPT !.available = @ + amount, !.total = @ + amount]

\* withdraw that forgets to debit total
withdraw_keeps_total(account, amount) ==
    IF account.available >= amount
    THEN [account EXCEPT !.available = @ - amount]
    ELSE account

\* withdraw without the funds check
withdraw_unchecked(account, amount) ==
    [account EXCEPT !.available = @ - amount, !.total = @ - amount]

\* withdraw that refuses to empty the account (> for >=)
withdraw_strict(account, amount) ==
    IF account.available > amount
    THEN [account EXCEPT !.available = @ - amount, !.total = @ - amount]
    ELSE account

\* ClientAccount::withdraw
withdraw(account, amount) ==
    IF account.available >= amount
    THEN [account EXCEPT !.available = @ - amount, !.total = @ - amount]
    ELSE account

\* ClientAccount::hold
hold(account, amount) ==
    [account EXCEPT !.available = @ - amount, !.held = @ + amount]

\* release that forgets to credit available
release_no_credit(account, amount) ==
    [account EXCEPT !.held = @ - amount]

\* ClientAccount::release
release(account, amount) ==
    [account EXCEPT !.held = @ - amount, !.available = @ + amount]

\* chargeback that forgets to lock the account
chargeback_no_lock(account, amount) ==
    [account EXCEPT !.held = @ - amount, !.total = @ - amount]

\* ClientAccount::chargeback
chargeback(account, amount) ==
    [account EXCEPT !.held = @ - amount, !.total = @ - amount, !.locked = TRUE]

\* ---- engine.rs -----------------------------------------------------------
\* HashMap::new
EmptyMap == [k \in {} |-> 0]

\* PaymentsEngine::new
PaymentsEngine == [clients |-> EmptyMap, transactions |-> EmptyMap]

\* HashMap::insert
insert(map, key, value) ==
    [k \in DOMAIN map \cup {key} |-> IF k = key THEN value ELSE map[k]]

\* HashMap::entry(key).or_insert_with(ClientAccount::new)
or_insert_with(map, key) ==
    IF key \in DOMAIN map THEN map ELSE insert(map, key, new)

\* handle_deposit without the locked check
handle_deposit_ignores_lock(eng, rec) ==
    IF rec.amount = None THEN eng
    ELSE LET amount == rec.amount[1]
             cl == or_insert_with(eng.clients, rec.client)
         IN  [clients |-> insert(cl, rec.client, deposit(cl[rec.client], amount)),
              transactions |-> insert(eng.transactions, rec.tx,
                                      StoredTransaction(rec.client, amount, FALSE))]

\* handle_deposit that keeps the entry already stored under the tx
handle_deposit_keeps_entry(eng, rec) ==
    IF rec.amount = None THEN eng
    ELSE LET amount == rec.amount[1]
             cl == or_insert_with(eng.clients, rec.client)
         IN  IF cl[rec.client].locked
             THEN [eng EXCEPT !.clients = cl]
             ELSE [clients |-> insert(cl, rec.client, deposit(cl[rec.client], amount)),
                   transactions |->
                       IF rec.tx \in DOMAIN eng.transactions
                       THEN eng.transactions
                       ELSE insert(eng.transactions, rec.tx,
                                   StoredTransaction(rec.client, amount, FALSE))]

\* handle_deposit that creates the account before it looks at the amount
handle_deposit_creates_first(eng, rec) ==
    LET cl == or_insert_with(eng.clients, rec.client)
    IN  IF rec.amount = None THEN [eng EXCEPT !.clients = cl]
        ELSE IF cl[rec.client].locked THEN [eng EXCEPT !.clients = cl]
        ELSE [clients |-> insert(cl, rec.client,
                                 deposit(cl[rec.client], rec.amount[1])),
              transactions |-> insert(eng.transactions, rec.tx,
                                      StoredTransaction(rec.client, rec.amount[1], FALSE))]

\* handle_deposit that looks the account up without creating it, and stores
\* the entry all the same
handle_deposit_no_create(eng, rec) ==
    IF rec.amount = None THEN eng
    ELSE LET amount == rec.amount[1]
             entry == StoredTransaction(rec.client, amount, FALSE)
         IN  IF rec.client \notin DOMAIN eng.clients
             THEN [eng EXCEPT !.transactions = insert(eng.transactions, rec.tx, entry)]
             ELSE IF eng.clients[rec.client].locked THEN eng
             ELSE [clients |-> insert(eng.clients, rec.client,
                                      deposit(eng.clients[rec.client], amount)),
                   transactions |-> insert(eng.transactions, rec.tx, entry)]

\* PaymentsEngine::handle_deposit
handle_deposit(eng, rec) ==
    IF rec.amount = None THEN eng
    ELSE LET amount == rec.amount[1]
             cl == or_insert_with(eng.clients, rec.client)
         IN  IF cl[rec.client].locked
             THEN [eng EXCEPT !.clients = cl]
             ELSE [clients |-> insert(cl, rec.client, deposit(cl[rec.client], amount)),
                   transactions |-> insert(eng.transactions, rec.tx,
                                           StoredTransaction(rec.client, amount, FALSE))]

\* handle_withdrawal that looks the account up without creating it
handle_withdrawal_no_create(eng, rec) ==
    IF rec.amount = None THEN eng
    ELSE IF rec.client \notin DOMAIN eng.clients THEN eng
    ELSE IF eng.clients[rec.client].locked THEN eng
    ELSE [eng EXCEPT !.clients =
              insert(eng.clients, rec.client,
                     withdraw(eng.clients[rec.client], rec.amount[1]))]

\* PaymentsEngine::handle_withdrawal
handle_withdrawal(eng, rec) ==
    IF rec.amount = None THEN eng
    ELSE LET amount == rec.amount[1]
             cl == or_insert_with(eng.clients, rec.client)
         IN  IF cl[rec.client].locked
             THEN [eng EXCEPT !.clients = cl]
             ELSE [eng EXCEPT !.clients =
                       insert(cl, rec.client, withdraw(cl[rec.client], amount))]

\* handle_dispute without the double-dispute check
handle_dispute_no_dispute_check(eng, rec) ==
    IF rec.tx \notin DOMAIN eng.transactions THEN eng
    ELSE LET stored == eng.transactions[rec.tx]
         IN  IF stored.client # rec.client THEN eng
             ELSE IF rec.client \notin DOMAIN eng.clients THEN eng
             ELSE IF eng.clients[rec.client].locked THEN eng
             ELSE [clients |-> insert(eng.clients, rec.client,
                                      hold(eng.clients[rec.client], stored.amount)),
                   transactions |-> insert(eng.transactions, rec.tx,
                                           [stored EXCEPT !.under_dispute = TRUE])]

\* handle_dispute without the ownership check
handle_dispute_no_client_check(eng, rec) ==
    IF rec.tx \notin DOMAIN eng.transactions THEN eng
    ELSE LET stored == eng.transactions[rec.tx]
         IN  IF stored.under_dispute THEN eng
             ELSE IF rec.client \notin DOMAIN eng.clients THEN eng
             ELSE IF eng.clients[rec.client].locked THEN eng
             ELSE [clients |-> insert(eng.clients, rec.client,
                                      hold(eng.clients[rec.client], stored.amount)),
                   transactions |-> insert(eng.transactions, rec.tx,
                                           [stored EXCEPT !.under_dispute = TRUE])]

\* handle_dispute that creates the account first, as the deposit handler does
handle_dispute_creates_account(eng, rec) ==
    LET cl == or_insert_with(eng.clients, rec.client)
    IN  IF rec.tx \notin DOMAIN eng.transactions THEN [eng EXCEPT !.clients = cl]
        ELSE LET stored == eng.transactions[rec.tx]
             IN  IF stored.client # rec.client THEN [eng EXCEPT !.clients = cl]
                 ELSE IF stored.under_dispute THEN [eng EXCEPT !.clients = cl]
                 ELSE IF cl[rec.client].locked THEN [eng EXCEPT !.clients = cl]
                 ELSE [clients |-> insert(cl, rec.client,
                                          hold(cl[rec.client], stored.amount)),
                       transactions |-> insert(eng.transactions, rec.tx,
                                               [stored EXCEPT !.under_dispute = TRUE])]

\* PaymentsEngine::handle_dispute
handle_dispute(eng, rec) ==
    IF rec.tx \notin DOMAIN eng.transactions THEN eng
    ELSE LET stored == eng.transactions[rec.tx]
         IN  IF stored.client # rec.client THEN eng
             ELSE IF stored.under_dispute THEN eng
             ELSE IF rec.client \notin DOMAIN eng.clients THEN eng
             ELSE IF eng.clients[rec.client].locked THEN eng
             ELSE [clients |-> insert(eng.clients, rec.client,
                                      hold(eng.clients[rec.client], stored.amount)),
                   transactions |-> insert(eng.transactions, rec.tx,
                                           [stored EXCEPT !.under_dispute = TRUE])]

\* handle_resolve that acts on the account of the entry's owner, whoever
\* sent the event
handle_resolve_acts_on_owner(eng, rec) ==
    IF rec.tx \notin DOMAIN eng.transactions THEN eng
    ELSE LET stored == eng.transactions[rec.tx]
         IN  IF ~stored.under_dispute THEN eng
             ELSE IF stored.client \notin DOMAIN eng.clients THEN eng
             ELSE IF eng.clients[stored.client].locked THEN eng
             ELSE [clients |-> insert(eng.clients, stored.client,
                                      release(eng.clients[stored.client], stored.amount)),
                   transactions |-> insert(eng.transactions, rec.tx,
                                           [stored EXCEPT !.under_dispute = FALSE])]

\* handle_resolve without the locked check
handle_resolve_ignores_lock(eng, rec) ==
    IF rec.tx \notin DOMAIN eng.transactions THEN eng
    ELSE LET stored == eng.transactions[rec.tx]
         IN  IF stored.client # rec.client THEN eng
             ELSE IF ~stored.under_dispute THEN eng
             ELSE IF rec.client \notin DOMAIN eng.clients THEN eng
             ELSE [clients |-> insert(eng.clients, rec.client,
                                      release(eng.clients[rec.client], stored.amount)),
                   transactions |-> insert(eng.transactions, rec.tx,
                                           [stored EXCEPT !.under_dispute = FALSE])]

\* PaymentsEngine::handle_resolve
handle_resolve(eng, rec) ==
    IF rec.tx \notin DOMAIN eng.transactions THEN eng
    ELSE LET stored == eng.transactions[rec.tx]
         IN  IF stored.client # rec.client THEN eng
             ELSE IF ~stored.under_dispute THEN eng
             ELSE IF rec.client \notin DOMAIN eng.clients THEN eng
             ELSE IF eng.clients[rec.client].locked THEN eng
             ELSE [clients |-> insert(eng.clients, rec.client,
                                      release(eng.clients[rec.client], stored.amount)),
                   transactions |-> insert(eng.transactions, rec.tx,
                                           [stored EXCEPT !.under_dispute = FALSE])]

\* handle_chargeback without the under-dispute check
handle_chargeback_no_dispute_check(eng, rec) ==
    IF rec.tx \notin DOMAIN eng.transactions THEN eng
    ELSE LET stored == eng.transactions[rec.tx]
         IN  IF stored.client # rec.client THEN eng
             ELSE IF rec.client \notin DOMAIN eng.clients THEN eng
             ELSE IF eng.clients[rec.client].locked THEN eng
             ELSE [clients |-> insert(eng.clients, rec.client,
                                      chargeback(eng.clients[rec.client], stored.amount)),
                   transactions |-> insert(eng.transactions, rec.tx,
                                           [stored EXCEPT !.under_dispute = FALSE])]

\* PaymentsEngine::handle_chargeback
handle_chargeback(eng, rec) ==
    IF rec.tx \notin DOMAIN eng.transactions THEN eng
    ELSE LET stored == eng.transactions[rec.tx]
         IN  IF stored.client # rec.client THEN eng
             ELSE IF ~stored.under_dispute THEN eng
             ELSE IF rec.client \notin DOMAIN eng.clients THEN eng
             ELSE IF eng.clients[rec.client].locked THEN eng
             ELSE [clients |-> insert(eng.clients, rec.client,
                                      chargeback(eng.clients[rec.client], stored.amount)),
                   transactions |-> insert(eng.transactions, rec.tx,
                                           [stored EXCEPT !.under_dispute = FALSE])]

\* PaymentsEngine::process
process(eng, rec) ==
    CASE rec.type = "deposit"    -> handle_deposit(eng, rec)
      [] rec.type = "withdrawal" -> handle_withdrawal(eng, rec)
      [] rec.type = "dispute"    -> handle_dispute(eng, rec)
      [] rec.type = "resolve"    -> handle_resolve(eng, rec)
      [] rec.type = "chargeback" -> handle_chargeback(eng, rec)

\* ---- the state machine: main.rs feeds the records to process() in order --
\* no record handled yet
NoRecord == [type |-> "none", client |-> 0, tx |-> 0, amount |-> None]

Init ==
    /\ clients = PaymentsEngine.clients
    /\ transactions = PaymentsEngine.transactions
    /\ record = NoRecord
    /\ prev_clients = PaymentsEngine.clients
    /\ prev_transactions = PaymentsEngine.transactions
    /\ processed = 0
    /\ stream = <<>>

\* engine.process(rec) on the engine's two maps
Handle(rec) ==
    /\ LET eng == process([clients |-> clients, transactions |-> transactions], rec)
       IN  /\ clients' = eng.clients
           /\ transactions' = eng.transactions
    /\ record' = rec
    /\ prev_clients' = clients
    /\ prev_transactions' = transactions
    /\ processed' = processed + 1

\* engine.process(rec) as one of the first MaxEvents records
Apply(rec) ==
    /\ processed < MaxEvents
    /\ Handle(rec)

\* one iteration of the loop of run(): engine.process(rec)
Step(rec) ==
    /\ Apply(rec)
    /\ UNCHANGED stream

\* the same iteration, the record being noted in stream
StepRecorded(rec) ==
    /\ Apply(rec)
    /\ stream' = Append(stream, rec)

Deposit ==
    \E c \in Clients, t \in Txs, a \in Amounts :
        Step(TransactionRecord("deposit", c, t, a))

Withdrawal ==
    \E c \in Clients, t \in Txs, a \in Amounts :
        Step(TransactionRecord("withdrawal", c, t, a))

\* the amount of a dispute, resolve or chargeback row is never read
Dispute ==
    \E c \in Clients, t \in Txs :
        Step(TransactionRecord("dispute", c, t, None))

Resolve ==
    \E c \in Clients, t \in Txs :
        Step(TransactionRecord("resolve", c, t, None))

Chargeback ==
    \E c \in Clients, t \in Txs :
        Step(TransactionRecord("chargeback", c, t, None))

Next ==
    \/ Deposit
    \/ Withdrawal
    \/ Dispute
    \/ Resolve
    \/ Chargeback

Spec == Init /\ [][Next]_vars

\* ---- inputs whose deposit and withdrawal amounts are positive -------------
PositiveValues == 1..MaxAmount

\* a row without amount carries no amount that could fail to be positive
PositiveAmounts == {None} \cup {Some(a) : a \in PositiveValues}

DepositPositive ==
    \E c \in Clients, t \in Txs, a \in PositiveAmounts :
        Step(TransactionRecord("deposit", c, t, a))

WithdrawalPositive ==
    \E c \in Clients, t \in Txs, a \in PositiveAmounts :
        Step(TransactionRecord("withdrawal", c, t, a))

\* every deposit and every withdrawal amount is positive
NextPositive ==
    \/ DepositPositive
    \/ WithdrawalPositive
    \/ Dispute
    \/ Resolve
    \/ Chargeback

SpecPositive == Init /\ [][NextPositive]_vars

\* every deposit amount is positive, withdrawals carry any amount
NextPositiveDeposits ==
    \/ DepositPositive
    \/ Withdrawal
    \/ Dispute
    \/ Resolve
    \/ Chargeback

SpecPositiveDeposits == Init /\ [][NextPositiveDeposits]_vars

\* ---- longer streams, for what happens after a chargeback -------------------
\* Locking an account takes a deposit, a dispute and a chargeback; an account
\* that is locked while it still holds funds and still owns a disputed entry
\* takes two more events, and the event that then meets the lock is the
\* sixth.  These streams have MaxEventsLong records and the same inputs as
\* Spec.
StepLong(rec) ==
    /\ processed < MaxEventsLong
    /\ Handle(rec)
    /\ UNCHANGED stream

DepositLong ==
    \E c \in Clients, t \in Txs, a \in Amounts :
        StepLong(TransactionRecord("deposit", c, t, a))

WithdrawalLong ==
    \E c \in Clients, t \in Txs, a \in Amounts :
        StepLong(TransactionRecord("withdrawal", c, t, a))

DisputeLong ==
    \E c \in Clients, t \in Txs :
        StepLong(TransactionRecord("dispute", c, t, None))

ResolveLong ==
    \E c \in Clients, t \in Txs :
        StepLong(TransactionRecord("resolve", c, t, None))

ChargebackLong ==
    \E c \in Clients, t \in Txs :
        StepLong(TransactionRecord("chargeback", c, t, None))

NextLong ==
    \/ DepositLong
    \/ WithdrawalLong
    \/ DisputeLong
    \/ ResolveLong
    \/ ChargebackLong

SpecLong == Init /\ [][NextLong]_vars

\* ---- streams of deposits and withdrawals with positive amounts only -------
DepositRecorded ==
    \E c \in Clients, t \in Txs, a \in PositiveValues :
        StepRecorded(TransactionRecord("deposit", c, t, Some(a)))

WithdrawalRecorded ==
    \E c \in Clients, t \in Txs, a \in PositiveValues :
        StepRecorded(TransactionRecord("withdrawal", c, t, Some(a)))

NextDW ==
    \/ DepositRecorded
    \/ WithdrawalRecorded

SpecDW == Init /\ [][NextDW]_vars

TypeOK ==
    /\ DOMAIN clients \subseteq Clients
    /\ DOMAIN transactions \subseteq Txs
    /\ \A c \in DOMAIN clients : clients[c].locked \in BOOLEAN
    /\ \A t \in DOMAIN transactions :
          /\ transactions[t].client \in Clients
          /\ transactions[t].under_dispute \in BOOLEAN
    /\ processed \in 0..MaxEventsLong

\* ---- helpers of the properties --------------------------------------------
\* process(record) left both maps as it found them
NoEffect == clients = prev_clients /\ transactions = prev_transactions

DisputeFamily == {"dispute", "resolve", "chargeback"}

\* available of the client as process(record) found it (a lazily created
\* account starts at zero)
AvailableBefore(c) ==
    IF c \in DOMAIN prev_clients THEN prev_clients[c].available ELSE 0

\* ---- C1 -------------------------------------------------------------------
\* C1: in every reachable state every account of the Account Store satisfies
\* total = available + held.
C1_TotalIsAvailablePlusHeld ==
    \A c \in DOMAIN clients :
        clients[c].total = clients[c].available + clients[c].held

\* an account with funds both available and held, after a withdrawal
C1_Witness ==
    /\ record.type = "withdrawal"
    /\ record.client \in DOMAIN prev_clients
    /\ clients[record.client] # prev_clients[record.client]
    /\ clients[record.client].held > 0
    /\ clients[record.client].available > 0

\* ---- C2 -------------------------------------------------------------------
\* C2: an account that is locked when an event arrives is still there after
\* the event with the same available, held, total and locked, whatever the
\* event; so locked never returns to false.
C2_LockedAccountFrozen ==
    \A c \in DOMAIN prev_clients :
        prev_clients[c].locked =>
            /\ c \in DOMAIN clients
            /\ clients[c] = prev_clients[c]

\* a chargeback met the lock: it came from the owner of an entry that is
\* under dispute, for a positive amount, on an account that was locked while
\* it held funds
C2_Witness ==
    /\ record.type = "chargeback"
    /\ record.tx \in DOMAIN prev_transactions
    /\ prev_transactions[record.tx].client = record.client
    /\ prev_transactions[record.tx].under_dispute
    /\ prev_transactions[record.tx].amount > 0
    /\ record.client \in DOMAIN prev_clients
    /\ prev_clients[record.client].locked
    /\ prev_clients[record.client].held > 0

\* ---- C3 -------------------------------------------------------------------
\* C3: every LedgerEntry whose client is locked when an event arrives is
\* stored unchanged (same client, amount and under_dispute) after the event,
\* whichever client the event names.
C3_LockedClientEntriesFrozen ==
    \A t \in DOMAIN prev_transactions :
        LET c == prev_transactions[t].client
        IN  (c \in DOMAIN prev_clients /\ prev_clients[c].locked) =>
                /\ t \in DOMAIN transactions
                /\ transactions[t] = prev_transactions[t]

\* ---- C4 -------------------------------------------------------------------
\* C4: a dispute on a transaction whose entry is already under dispute
\* changes neither the Account Store nor the Transaction Ledger.
C4_DoubleDisputeNoEffect ==
    ( /\ record.type = "dispute"
      /\ record.tx \in DOMAIN prev_transactions
      /\ prev_transactions[record.tx].under_dispute )
    => NoEffect

\* the owner disputes its own, already disputed entry on an unlocked account
C4_Witness ==
    /\ record.type = "dispute"
    /\ record.tx \in DOMAIN prev_transactions
    /\ prev_transactions[record.tx].under_dispute
    /\ prev_transactions[record.tx].client = record.client
    /\ prev_transactions[record.tx].amount > 0
    /\ record.client \in DOMAIN prev_clients
    /\ ~prev_clients[record.client].locked

\* ---- C5 -------------------------------------------------------------------
\* C5: a resolve or a chargeback on a transaction whose entry is not under
\* dispute changes neither accounts nor ledger (so it locks nothing).
C5_ResolveChargebackUndisputedNoEffect ==
    ( /\ record.type \in {"resolve", "chargeback"}
      /\ record.tx \in DOMAIN prev_transactions
      /\ ~prev_transactions[record.tx].under_dispute )
    => NoEffect

\* the owner charges back its own undisputed entry on an unlocked account
C5_Witness ==
    /\ record.type = "chargeback"
    /\ record.tx \in DOMAIN prev_transactions
    /\ ~prev_transactions[record.tx].under_dispute
    /\ prev_transactions[record.tx].client = record.client
    /\ prev_transactions[record.tx].amount > 0
    /\ record.client \in DOMAIN prev_clients
    /\ ~prev_clients[record.client].locked

\* ---- C6 -------------------------------------------------------------------
\* C6: a dispute, resolve or chargeback whose client differs from the client
\* of the referenced entry changes no account and no ledger entry.
C6_WrongClientNoEffect ==
    ( /\ record.type \in DisputeFamily
      /\ record.tx \in DOMAIN prev_transactions
      /\ prev_transactions[record.tx].client # record.client )
    => NoEffect

\* another client, with an unlocked account of its own, disputes an
\* undisputed entry
C6_Witness ==
    /\ record.type = "dispute"
    /\ record.tx \in DOMAIN prev_transactions
    /\ prev_transactions[record.tx].client # record.client
    /\ ~prev_transactions[record.tx].under_dispute
    /\ prev_transactions[record.tx].amount > 0
    /\ record.client \in DOMAIN prev_clients
    /\ ~prev_clients[record.client].locked

\* ---- C7 -------------------------------------------------------------------
\* C7: a dispute, resolve or chargeback on a transaction identifier without
\* LedgerEntry changes no account and no ledger entry.
C7_UnknownTxNoEffect ==
    ( /\ record.type \in DisputeFamily
      /\ record.tx \notin DOMAIN prev_transactions )
    => NoEffect

\* a dispute on an identifier without entry, while another entry exists
C7_Witness ==
    /\ record.type = "dispute"
    /\ record.tx \notin DOMAIN prev_transactions
    /\ prev_transactions # EmptyMap

\* ---- C8 -------------------------------------------------------------------
\* C8: a withdrawal of more than the client's available changes no ledger
\* entry and no existing account; at most it creates the all-zero account of
\* a client unknown until then.
C8_UncoveredWithdrawalNoEffect ==
    ( /\ record.type = "withdrawal"
      /\ record.amount # None
      /\ record.amount[1] > AvailableBefore(record.client) )
    => /\ transactions = prev_transactions
       /\ DOMAIN clients = DOMAIN prev_clients \cup {record.client}
       /\ \A c \in DOMAIN prev_clients : clients[c] = prev_clients[c]
       /\ record.client \notin DOMAIN prev_clients => clients[record.client] = new

\* an unlocked account with funds is asked for more than it has
C8_Witness ==
    /\ record.type = "withdrawal"
    /\ record.amount # None
    /\ record.client \in DOMAIN prev_clients
    /\ ~prev_clients[record.client].locked
    /\ prev_clients[record.client].available > 0
    /\ record.amount[1] > prev_clients[record.client].available

\* ---- C9 -------------------------------------------------------------------
\* C9 as stated: after process() handles an event of any kind naming client
\* c the Account Store holds an account for c, and no account is removed.
C9_AnyEventCreatesAccount ==
    record.type \in TransactionType =>
        /\ record.client \in DOMAIN clients
        /\ DOMAIN prev_clients \subseteq DOMAIN clients

\* C9 amended: a deposit or withdrawal that carries an amount leaves an
\* account for its client in the Account Store; every other event (dispute,
\* resolve, chargeback, amount-less deposit or withdrawal) creates no
\* account; no event removes an account.
C9_AmountEventCreatesAccount ==
    record.type \in TransactionType =>
        /\ DOMAIN prev_clients \subseteq DOMAIN clients
        /\ IF record.type \in {"deposit", "withdrawal"} /\ record.amount # None
           THEN DOMAIN clients = DOMAIN prev_clients \cup {record.client}
           ELSE DOMAIN clients = DOMAIN prev_clients

\* a withdrawal is the first reference to its client and creates the account
C9_Witness ==
    /\ record.type = "withdrawal"
    /\ record.client \notin DOMAIN prev_clients
    /\ record.client \in DOMAIN clients
    /\ prev_clients # EmptyMap

\* ---- C10 ------------------------------------------------------------------
\* C10: a chargeback on an entry that exists, belongs to the event's client
\* and is under dispute, for an unlocked account, clears under_dispute,
\* lowers held and total by the entry's amount, keeps available and locks
\* the account.
C10_ChargebackEffect ==
    ( /\ record.type = "chargeback"
      /\ record.tx \in DOMAIN prev_transactions
      /\ prev_transactions[record.tx].client = record.client
      /\ prev_transactions[record.tx].under_dispute
      /\ record.client \in DOMAIN prev_clients
      /\ ~prev_clients[record.client].locked )
    => LET before == prev_clients[record.client]
           amount == prev_transactions[record.tx].amount
       IN  /\ transactions[record.tx] =
                 StoredTransaction(record.client, amount, FALSE)
           /\ clients[record.client].held = before.held - amount
           /\ clients[record.client].total = before.total - amount
           /\ clients[record.client].available = before.available
           /\ clients[record.client].locked

\* the end of deposit(c,t,a), dispute(c,t), chargeback(c,t) on a fresh
\* account: everything at zero and locked
C10_Witness ==
    /\ record.type = "chargeback"
    /\ processed = 3
    /\ record.client \in DOMAIN prev_clients
    /\ record.tx \in DOMAIN prev_transactions
    /\ prev_transactions[record.tx].amount > 0
    /\ prev_clients[record.client] =
           [available |-> 0, held |-> prev_transactions[record.tx].amount,
            total |-> prev_transactions[record.tx].amount, locked |-> FALSE]
    /\ clients[record.client] =
           [available |-> 0, held |-> 0, total |-> 0, locked |-> TRUE]

\* ---- C11 ------------------------------------------------------------------
\* C11: a successful dispute moves the entry's amount from available to held
\* and keeps total; a resolve of the same entry by the same client, applied
\* to the state the dispute left, gives back exactly the accounts and the
\* ledger the dispute found.
C11_DisputeResolveInverse ==
    ( /\ record.type = "dispute"
      /\ record.tx \in DOMAIN prev_transactions
      /\ prev_transactions[record.tx].client = record.client
      /\ ~prev_transactions[record.tx].under_dispute
      /\ record.client \in DOMAIN prev_clients
      /\ ~prev_clients[record.client].locked )
    => LET before == prev_clients[record.client]
           after == clients[record.client]
           amount == prev_transactions[record.tx].amount
       IN  /\ after.available = before.available - amount
           /\ after.held = before.held + amount
           /\ after.total = before.total
           /\ transactions[record.tx].under_dispute
           /\ process([clients |-> clients, transactions |-> transactions],
                      TransactionRecord("resolve", record.client, record.tx, None))
              = [clients |-> prev_clients, transactions |-> prev_transactions]

\* a dispute has just moved a positive amount into held
C11_Witness ==
    /\ record.type = "dispute"
    /\ record.tx \in DOMAIN prev_transactions
    /\ ~prev_transactions[record.tx].under_dispute
    /\ record.tx \in DOMAIN transactions
    /\ transactions[record.tx].under_dispute
    /\ transactions[record.tx].amount > 0
    /\ clients[record.client].held = transactions[record.tx].amount

\* ---- C12 ------------------------------------------------------------------
\* the balance the claim gives client c after the records of s: the sum of
\* its deposits minus those of its withdrawals that the running balance
\* covered
RECURSIVE Balance(_, _)
Balance(c, s) ==
    IF s = <<>> THEN 0
    ELSE LET r == s[Len(s)]
             b == Balance(c, SubSeq(s, 1, Len(s) - 1))
         IN  IF r.client # c THEN b
             ELSE IF r.type = "deposit" THEN b + r.amount[1]
             ELSE IF b >= r.amount[1] THEN b - r.amount[1]
             ELSE b

NamedIn(s) == {s[i].client : i \in 1..Len(s)}

\* C12: after a stream of deposits and withdrawals with positive amounts,
\* every client named in it has available = total = its deposits minus its
\* covered withdrawals, held = 0 and locked = false.
C12_DepositWithdrawalBalance ==
    \A c \in NamedIn(stream) :
        /\ c \in DOMAIN clients
        /\ clients[c] = [available |-> Balance(c, stream), held |-> 0,
                         total |-> Balance(c, stream), locked |-> FALSE]

\* a client is left with funds after a covered and then an uncovered
\* withdrawal
C12_Witness ==
    \E c \in NamedIn(stream) :
        /\ Balance(c, stream) > 0
        /\ \E i, j \in 1..Len(stream) :
              /\ i < j
              /\ stream[i].type = "withdrawal" /\ stream[i].client = c
              /\ stream[j].type = "withdrawal" /\ stream[j].client = c
              /\ Balance(c, SubSeq(stream, 1, i)) < Balance(c, SubSeq(stream, 1, i - 1))
              /\ Balance(c, SubSeq(stream, 1, j)) = Balance(c, SubSeq(stream, 1, j - 1))

\* ---- C14 ------------------------------------------------------------------
\* total of the client as process(record) found it
TotalBefore(c) ==
    IF c \in DOMAIN prev_clients THEN prev_clients[c].total ELSE 0

\* C14: a deposit with an amount, for an unlocked account, on a tx that
\* already has an entry credits available and total and stores
\* {client of the event, amount of the event, under_dispute = false} under
\* the tx.
C14_DepositOverwritesEntry ==
    ( /\ record.type = "deposit"
      /\ record.amount # None
      /\ record.tx \in DOMAIN prev_transactions
      /\ record.client \in DOMAIN prev_clients => ~prev_clients[record.client].locked )
    => /\ clients[record.client].available =
              AvailableBefore(record.client) + record.amount[1]
       /\ clients[record.client].total =
              TotalBefore(record.client) + record.amount[1]
       /\ transactions[record.tx] =
              StoredTransaction(record.client, record.amount[1], FALSE)

\* the tx held a disputed entry of another client with another amount
C14_Witness ==
    /\ record.type = "deposit"
    /\ record.amount # None
    /\ record.tx \in DOMAIN prev_transactions
    /\ prev_transactions[record.tx].client # record.client
    /\ prev_transactions[record.tx].under_dispute
    /\ prev_transactions[record.tx].amount # record.amount[1]
    /\ transactions[record.tx].client = record.client

\* ---- C15 ------------------------------------------------------------------
\* C15: an entry of the ledger is still there after any event, with the
\* client and the amount it had.
C15_EntryClientAmountImmutable ==
    \A t \in DOMAIN prev_transactions :
        /\ t \in DOMAIN transactions
        /\ transactions[t].client = prev_transactions[t].client
        /\ transactions[t].amount = prev_transactions[t].amount

\* ---- C16 ------------------------------------------------------------------
\* sum of the amounts of the entries under the identifiers T that client c
\* owns and that are under dispute
RECURSIVE DisputedAmount(_, _)
DisputedAmount(c, T) ==
    IF T = {} THEN 0
    ELSE LET t == CHOOSE x \in T : TRUE
             rest == DisputedAmount(c, T \ {t})
         IN  IF transactions[t].client = c /\ transactions[t].under_dispute
             THEN transactions[t].amount + rest
             ELSE rest

\* C16: in every state each client's held is the sum of the amounts of its
\* entries that are under dispute.
C16_HeldIsDisputedAmount ==
    \A c \in DOMAIN clients :
        clients[c].held = DisputedAmount(c, DOMAIN transactions)

\* ---- C17 ------------------------------------------------------------------
\* C17: a deposit or a withdrawal without amount changes neither the Account
\* Store (no account is created) nor the Transaction Ledger.
C17_AmountlessDropped ==
    ( /\ record.type \in {"deposit", "withdrawal"}
      /\ record.amount = None )
    => NoEffect

\* an amount-less deposit was the first reference to its client, on an
\* engine that already knew another client
C17_Witness ==
    /\ record.type = "deposit"
    /\ record.amount = None
    /\ record.client \notin DOMAIN prev_clients
    /\ prev_clients # EmptyMap

\* ---- C18 ------------------------------------------------------------------
\* C18: an event naming client c neither creates, removes nor changes the
\* account of any other client.
C18_ClientIsolation ==
    record.type \in TransactionType =>
        \A c \in (DOMAIN clients \cup DOMAIN prev_clients) \ {record.client} :
            /\ c \in DOMAIN prev_clients
            /\ c \in DOMAIN clients
            /\ clients[c] = prev_clients[c]

\* a client sent a resolve for the disputed entry of another client whose
\* account is unlocked
C18_Witness ==
    /\ record.type = "resolve"
    /\ record.tx \in DOMAIN prev_transactions
    /\ prev_transactions[record.tx].under_dispute
    /\ prev_transactions[record.tx].amount > 0
    /\ prev_transactions[record.tx].client # record.client
    /\ prev_transactions[record.tx].client \in DOMAIN prev_clients
    /\ ~prev_clients[prev_transactions[record.tx].client].locked

\* ---- C19 ------------------------------------------------------------------
\* C19 as stated: with positive deposit and withdrawal amounts no account's
\* available is negative in any reachable state.
C19_AvailableNeverNegative ==
    \A c \in DOMAIN clients : clients[c].available >= 0

\* C19 amended: with positive deposit and withdrawal amounts, a deposit,
\* withdrawal, resolve or chargeback leaves non-negative every available
\* that was non-negative before it; only a dispute takes available below
\* zero.
C19_OnlyDisputeMakesAvailableNegative ==
    record.type \in TransactionType \ {"dispute"} =>
        \A c \in DOMAIN clients :
            AvailableBefore(c) >= 0 => clients[c].available >= 0

\* a withdrawal has just emptied an account exactly
C19_Witness ==
    /\ record.type = "withdrawal"
    /\ record.client \in DOMAIN prev_clients
    /\ prev_clients[record.client].available > 0
    /\ clients[record.client].available = 0

\* ---- C20 ------------------------------------------------------------------
\* C20: with positive deposit amounts no account's held is negative in any
\* reachable state.
C20_HeldNeverNegative ==
    \A c \in DOMAIN clients : clients[c].held >= 0

\* a resolve or chargeback arrived for an entry that a later deposit stored
\* over a disputed one: the entry is the sender's and not under dispute,
\* while the sender's held funds belong to no disputed entry any more
C20_Witness ==
    /\ record.type \in {"resolve", "chargeback"}
    /\ record.tx \in DOMAIN prev_transactions
    /\ prev_transactions[record.tx].client = record.client
    /\ ~prev_transactions[record.tx].under_dispute
    /\ record.client \in DOMAIN clients
    /\ clients[record.client].held > 0
    /\ DisputedAmount(record.client, DOMAIN transactions) = 0

\* ---- C21 ------------------------------------------------------------------
\* the entry's flag is in the state the event needs: clear for a dispute, set
\* for a resolve or a chargeback
DisputeStateFits(type, entry) ==
    IF type = "dispute" THEN ~entry.under_dispute ELSE entry.under_dispute

\* C21: the client of every LedgerEntry has an account in the Account Store;
\* so a dispute, resolve or chargeback whose entry exists, belongs to the
\* event's client and is in the fitting dispute state, and whose account is
\* not locked, always takes effect: it toggles the entry's under_dispute.
C21_EntryOwnerHasAccount ==
    /\ \A t \in DOMAIN transactions : transactions[t].client \in DOMAIN clients
    /\ ( /\ record.type \in DisputeFamily
         /\ record.tx \in DOMAIN prev_transactions
         /\ prev_transactions[record.tx].client = record.client
         /\ DisputeStateFits(record.type, prev_transactions[record.tx])
         /\ ~(record.client \in DOMAIN prev_clients
              /\ prev_clients[record.client].locked) )
       => /\ record.client \in DOMAIN prev_clients
          /\ transactions[record.tx].under_dispute
                 = ~prev_transactions[record.tx].under_dispute

\* a dispute passed the ownership and dispute-state checks, found the
\* owner's unlocked account and set the flag
C21_Witness ==
    /\ record.type = "dispute"
    /\ record.tx \in DOMAIN prev_transactions
    /\ prev_transactions[record.tx].client = record.client
    /\ ~prev_transactions[record.tx].under_dispute
    /\ record.client \in DOMAIN prev_clients
    /\ ~prev_clients[record.client].locked
    /\ transactions[record.tx].under_dispute
    /\ clients[record.client] # prev_clients[record.client]
====
